---- MODULE Spec2Model ----
(***************************************************************************)
(* A model of the EC2 rightsizing report lambda (src/ec2-rightsizing.py):  *)
(* the savings aggregators, the two paginated fetchers, the liveness       *)
(* probe, the synthetic generator and the lambda_handler fallback chain    *)
(* with its publish steps.                                                 *)
(*                                                                         *)
(* Conventions                                                             *)
(*  - Money is counted in whole cents: the float 0.01 is the integer 1.    *)
(*    A Python float is a record [nan, c]: nan says the value is NaN       *)
(*    (float("nan") parses), c is the value in cents otherwise.            *)
(*  - A JSON value that may be missing is a record with a kind field k:    *)
(*    "absent" (key not in the dict), "null" (None), "empty" ({}),         *)
(*    "dict" (a non-empty dict).                                           *)
(*  - Python's None for a string-valued local is the string "None".        *)
(*  - The process-wide random generator is a linear congruential generator *)
(*    over 0..RngMod-1; random() is the new state divided by RngMod.       *)
(*  - A date is a day number; the sha256 of its text is DailySeed.         *)
(***************************************************************************)
EXTENDS Integers, Sequences, FiniteSets, TLC

\* ---------------------------------------------------------------- bounds
\* Pages one fetch may receive before the provider stops handing out tokens.
MaxPages == 2
\* UTC days the clock can show: 0..MaxDay.
MaxDay == 1
\* Generator runs recorded in one behaviour of SpecGen.
MaxRuns == 3
\* Records in a collection handed to an aggregator in SpecSum.
MaxSumRecs == 2
MaxGenDay == 5

\* ------------------------------------------------------------- constants
\* MIN_SAVINGS = 0.01, in cents.
MIN_SAVINGS == 1
RECOMMENDATION_TARGET == "CROSS_INSTANCE_FAMILY"
BENEFITS_CONSIDERED == "True"
PREFIX == "projects/ec2-rightsizing"

\* ------------------------------------------------------------ FAMILIES
FAMILIES ==
  << [fam |-> "t3",  sizes |-> <<"micro", "small", "medium", "large", "xlarge", "2xlarge">>],
     [fam |-> "t4g", sizes |-> <<"small", "medium", "large", "xlarge", "2xlarge">>],
     [fam |-> "m6i", sizes |-> <<"large", "xlarge", "2xlarge">>],
     [fam |-> "m7i", sizes |-> <<"large", "xlarge", "2xlarge">>],
     [fam |-> "c7g", sizes |-> <<"large", "xlarge", "2xlarge">>],
     [fam |-> "r6i", sizes |-> <<"large", "xlarge", "2xlarge">>] >>

\* The size ladder of _smaller_type.
order == <<"micro", "small", "medium", "large", "xlarge", "2xlarge", "4xlarge", "8xlarge">>

\* ------------------------------------------------------- random module
RngMod == 65536
LcgA == 25173
LcgC == 13849

\* One step of the generator: every random.* call advances the state once.
Draw(s) == (s * LcgA + LcgC) % RngMod

\* random.randint(a, b) read off the state s the draw produced.
RandInt(s, a, b) == a + ((s * (b - a + 1)) \div RngMod)

\* random.choice(seq) read off the state s the draw produced.
Choice(s, seq) == seq[1 + ((s * Len(seq)) \div RngMod)]

\* round(random.uniform(a, b), 2) in hundredths, a and b given in hundredths.
UniformCents(s, a, b) == (a * RngMod + (b - a) * s + (RngMod \div 2)) \div RngMod

\* int(sha256(today)[:16], 16): a fixed scramble of the day number.
DailySeed(day) == (day * 40503 + 12345) % RngMod

\* ------------------------------------------------------------- floats
Float(n) == [nan |-> FALSE, c |-> n]
NaN == [nan |-> TRUE, c |-> 0]
FAdd(a, b) == IF a.nan \/ b.nan THEN NaN ELSE Float(a.c + b.c)
\* a < b on floats: every comparison with NaN is false.
FLess(a, b) == ~a.nan /\ ~b.nan /\ a.c < b.c

\* --------------------------------------------- recommendation records
\* The value under "Amount" / "value": absent, None, a string float() rejects
\* ("text"), the string "nan", or a number of cents ("num").
Amount(k, c) == [k |-> k, c |-> c]
\* The dict under "EstimatedMonthlySavings" / "estimatedMonthlySavings".
Savings(k, amt) == [k |-> k, amt |-> amt]
\* The dict under "ModifyRecommendationDetail", "TerminateRecommendationDetail"
\* or "savingsOpportunity".
Detail(k, sav) == [k |-> k, sav |-> sav]
NoAmount == Amount("absent", 0)
NoSavings == Savings("absent", NoAmount)
NoDetail == Detail("absent", NoSavings)
\* The {} that r.get(..) or {} and .get(.., {}) fall back to.
EmptyDetail == Detail("empty", NoSavings)
EmptySavings == Savings("empty", NoAmount)

\* A Cost Explorer record and a Compute Optimizer record.
CeRec(mod, term) == [shape |-> "ce", mod |-> mod, term |-> term]
CoRec(opp) == [shape |-> "co", opp |-> opp]

\* ------------------------------------------------- savings aggregator
\* The outcome of a call: it raised, or it returned the float val.
Raised == [raised |-> TRUE, val |-> Float(0)]
Returned(v) == [raised |-> FALSE, val |-> v]

\* float(amt) if amt is not None else 0.0, inside try/except Exception: pass.
\* The contribution of one amount to the total; "text" raises ValueError,
\* which the except swallows, leaving the total as it was.
AmountValue(amt) ==
  CASE amt.k = "num" -> Float(amt.c)
    [] amt.k = "nan" -> NaN
    [] OTHER -> Float(0)

\* detail = r.get("Modify..") or r.get("Terminate..") or {}
CeDetail(r) ==
  IF r.mod.k = "dict" THEN r.mod
  ELSE IF r.term.k = "dict" THEN r.term
  ELSE EmptyDetail

\* savings = detail.get("EstimatedMonthlySavings", {})
GetSavings(detail) == IF detail.sav.k = "absent" THEN EmptySavings ELSE detail.sav

\* savings.get("Amount") raises AttributeError when savings is None.
SavingsGetRaises(savings) == savings.k = "null"

\* One iteration of the loop of _sum_ce_savings.
CeStep(total, r) ==
  LET savings == GetSavings(CeDetail(r))
  IN IF SavingsGetRaises(savings) THEN Raised
     ELSE Returned(FAdd(total, AmountValue(savings.amt)))

\* r.get("savingsOpportunity", {}).get("estimatedMonthlySavings", {}):
\* the first get returns None for a null savingsOpportunity, and None.get raises.
CoStep(total, r) ==
  IF r.opp.k = "null" THEN Raised
  ELSE LET opp == IF r.opp.k = "absent" THEN EmptyDetail ELSE r.opp
           savings == GetSavings(opp)
       IN IF SavingsGetRaises(savings) THEN Raised
          ELSE Returned(FAdd(total, AmountValue(savings.amt)))

RECURSIVE SumFrom(_, _, _, _)
\* The for loop of both aggregators from record i on, with the total so far;
\* an exception outside the try leaves the loop and the function.
SumFrom(recs, i, total, co) ==
  IF i > Len(recs) THEN Returned(total)
  ELSE LET st == IF co THEN CoStep(total, recs[i]) ELSE CeStep(total, recs[i])
       IN IF st.raised THEN Raised ELSE SumFrom(recs, i + 1, st.val, co)

sum_ce_savings(recs) == SumFrom(recs, 1, Float(0), FALSE)
sum_co_savings(recs) == SumFrom(recs, 1, Float(0), TRUE)

\* ------------------------------------------------------------ summary
\* A summary dict: {} ("empty"), a Cost Explorer Summary (id names the page
\* response it came from), the Compute Optimizer enrollment status, or the
\* synthetic totals (total in cents, pct in hundredths of a percent).
Summary(kind, id, status, total, pct) ==
  [kind |-> kind, id |-> id, status |-> status, total |-> total, pct |-> pct]
EmptySummary == Summary("empty", 0, "", 0, 0)
CeSummary(id) == Summary("ce", id, "", 0, 0)
CoSummary(status) == Summary("co", 0, status, 0, 0)
SynSummary(total, pct) == Summary("syn", 0, "", total, pct)

\* ------------------------------------------------ synthetic generator
Max(a, b) == IF a >= b THEN a ELSE b

\* order.index(size), zero-based; -1 stands for the ValueError.
OrderIndex(size) ==
  IF \E i \in 1 .. Len(order) : order[i] = size
  THEN (CHOOSE i \in 1 .. Len(order) : order[i] = size) - 1
  ELSE -1

\* idx = max(order.index(size), 1); new_size = order[idx-1]; "small" on ValueError.
NewSize(size) ==
  LET i == OrderIndex(size)
  IN IF i < 0 THEN "small" ELSE order[(Max(i, 1) - 1) + 1]

\* The families of the model that start with "m6i", and with "t3".
StartsWithM6i(fam) == fam \in {"m6i", "m6id", "m6in"}
StartsWithT3(fam) == fam \in {"t3", "t3a"}

\* _smaller_type(of_type) with the generator in state s: the target type and
\* the state it leaves. random.random() is drawn only when the family test
\* before the "and" holds.
smaller_type(of_type, s) ==
  LET new_size == NewSize(of_type.size)
      s1 == IF StartsWithM6i(of_type.fam) THEN Draw(s) ELSE s
      fam1 == IF StartsWithM6i(of_type.fam) /\ 2 * s1 < RngMod THEN "m7g" ELSE of_type.fam
      s2 == IF StartsWithT3(fam1) THEN Draw(s1) ELSE s1
      fam2 == IF StartsWithT3(fam1) /\ 2 * s2 < RngMod THEN "t4g" ELSE fam1
  IN [fam |-> fam2, size |-> new_size, rng |-> s2]

\* _pick_instance_type(): two draws.
pick_instance_type(s) ==
  LET s1 == Draw(s)
      entry == Choice(s1, FAMILIES)
      s2 == Draw(s1)
  IN [fam |-> entry.fam, size |-> Choice(s2, entry.sizes), rng |-> s2]

\* Length of the hexadecimal part of an instance id.
IdLen == 17

RECURSIVE RandChoices(_, _)
\* random.choices("0123456789abcdef", k): k draws, each a digit 0..15.
RandChoices(s, k) ==
  IF k = 0 THEN [digits |-> <<>>, rng |-> s]
  ELSE LET s1 == Draw(s)
           rest == RandChoices(s1, k - 1)
       IN [digits |-> <<RandInt(s1, 0, 15)>> \o rest.digits, rng |-> rest.rng]

rand_instance_id(s) == RandChoices(s, IdLen)

\* One iteration of the loop of _gen_synthetic_recs from generator state s:
\* the record appended, its savings and the state left.
GenRecord(s) ==
  LET cur == pick_instance_type(s)
      tgt == smaller_type(cur, cur.rng)
      s1 == Draw(tgt.rng)
      rightsizing_type == IF 4 * s1 > RngMod THEN "Modify" ELSE "Terminate"
      s2 == Draw(s1)
      monthly_savings == UniformCents(s2, 300, 12000)
      id == rand_instance_id(s2)
      s3 == Draw(id.rng)
      n == RandInt(s3, 10, 99)
      sav == Detail("dict", Savings("dict", Amount("num", monthly_savings)))
      rec == [shape |-> "ce",
              AccountId |-> "913979368763",
              ResourceId |-> id.digits,
              InstanceName |-> [prefix |-> IF rightsizing_type = "Modify" THEN "app" ELSE "batch",
                                n |-> n],
              InstanceType |-> [fam |-> cur.fam, size |-> cur.size],
              RightsizingType |-> rightsizing_type,
              mod |-> IF rightsizing_type = "Modify" THEN sav ELSE NoDetail,
              term |-> IF rightsizing_type = "Modify" THEN NoDetail ELSE sav,
              TargetInstances |->
                IF rightsizing_type = "Modify"
                THEN << [InstanceType |-> [fam |-> tgt.fam, size |-> tgt.size],
                         EstimatedMonthlySavings |-> monthly_savings,
                         ExpectedCost |-> "unknown"] >>
                ELSE << >>]
  IN [rec |-> rec, savings |-> monthly_savings, rng |-> s3]

RECURSIVE GenLoopLastOnly(_, _, _, _)
\* Mutant: total = monthly_savings instead of total += monthly_savings.
GenLoopLastOnly(s, k, recs, total) ==
  IF k = 0 THEN [recs |-> recs, total |-> total, rng |-> s]
  ELSE LET g == GenRecord(s)
       IN GenLoopLastOnly(g.rng, k - 1, Append(recs, g.rec), g.savings)

RECURSIVE GenLoop(_, _, _, _)
\* for _ in range(n): the remaining k iterations.
GenLoop(s, k, recs, total) ==
  IF k = 0 THEN [recs |-> recs, total |-> total, rng |-> s]
  ELSE LET g == GenRecord(s)
       IN GenLoop(g.rng, k - 1, Append(recs, g.rec), total + g.savings)

\* Mutant: the generator is not reseeded.
SeedRngSkipped(day, s) == s

\* random.seed(_daily_seed()): the state the generator is left in, whatever
\* state s it was in.
SeedRng(day, s) == DailySeed(day)

\* _gen_synthetic_recs() called on UTC day `day` with the generator in state s.
gen_synthetic_recs(day, s) ==
  LET s0 == SeedRng(day, s)
      s1 == Draw(s0)
      n == RandInt(s1, 2, 5)
      loop == GenLoop(s1, n, << >>, 0)
      s2 == Draw(loop.rng)
  IN [summary |-> SynSummary(loop.total, UniformCents(s2, 500, 5500)),
      recs |-> loop.recs,
      rng |-> s2]

\* ---------------------------------------------------------------- state
VARIABLES
  pc,          \* where lambda_handler stands
  source,      \* lambda_handler's local source ("None" for None)
  summary,     \* lambda_handler's local summary
  recs,        \* lambda_handler's local recs
  next_token,  \* the running fetcher's local next_token (0 for None)
  f_recs,      \* the running fetcher's local recs
  f_summary,   \* the running fetcher's local summary
  requests,    \* the tokens the last fetcher entered has sent, one per request
  responses,   \* history: the pages the last fetcher entered has received
  clock,       \* the UTC day datetime.utcnow() shows
  rng,         \* the state of the process-wide random generator
  payload,     \* <<>> until the envelope is assembled, then <<envelope>>
  dated_key,   \* <<>> until line 248, then <<key>>
  puts,        \* the s3.put_object calls that returned, in order
  invals,      \* the cf.create_invalidation calls that returned, in order
  result,      \* <<>> until lambda_handler returns, then <<return value>>
  exc,         \* "None", or the call whose exception left lambda_handler
  calls,       \* history: the producers and probes called in this invocation
  ceAgg,       \* history: what _sum_ce_savings did at line 218
  coAgg,       \* history: what _sum_co_savings did at line 225
  running,     \* history: what _any_running_instances returned
  probe_call,  \* history: what ec2.describe_instances did
  status_call, \* history: what co.get_enrollment_status did
  attempts,    \* history: the publish calls made, in order, failed ones included
  seed_day,    \* history: <<>>, then <<the day _daily_seed read>>
  arg,         \* the argument of the pure function under check
  ret,         \* <<>>, then <<what the function did>>
  runs,        \* the generator runs made so far: the day, the generator's
               \* state before the run, and the summary and recs returned
  gen          \* the frames of the _gen_synthetic_recs calls running at once

handlerVars == <<pc, source, summary, recs>>
fetchVars == <<next_token, f_recs, f_summary, requests, responses>>
envVars == <<clock, rng>>
outVars == <<payload, dated_key, puts, invals, result, exc>>
logVars == <<probe_call, status_call, attempts, seed_day>>
histVars == <<calls, ceAgg, coAgg, running, logVars>>
pureVars == <<arg, ret, runs, gen>>
vars == <<handlerVars, fetchVars, envVars, outVars, histVars, pureVars>>

Days == 0 .. MaxDay

\* ------------------------------------------------- provider responses
\* The records a provider page can carry: a saving of 0 cents, of exactly
\* MIN_SAVINGS, of one cent more, a NaN amount, and a null savings block.
CeNum(c) == CeRec(NoDetail, Detail("dict", Savings("dict", Amount("num", c))))
CePageRecords ==
  { CeNum(0), CeNum(MIN_SAVINGS), CeNum(MIN_SAVINGS + 1),
    CeRec(Detail("dict", Savings("dict", Amount("nan", 0))), NoDetail),
    CeRec(Detail("dict", Savings("null", NoAmount)), NoDetail) }
CoNum(c) == CoRec(Detail("dict", Savings("dict", Amount("num", c))))
CoPageRecords ==
  { CoNum(0), CoNum(MIN_SAVINGS), CoNum(MIN_SAVINGS + 1),
    CoRec(Detail("dict", Savings("dict", Amount("nan", 0)))),
    CoRec(Detail("null", NoSavings)) }
\* A page carries no record or one.
Pages(alphabet) == { << >> } \cup { <<r>> : r \in alphabet }

\* The exceptions a boto3 call can raise: botocore's ClientError, or any
\* other Exception (EndpointConnectionError, ReadTimeoutError, ...).
Errors == {"ClientError", "OtherError"}

\* What an attempt did, for the history variables: nothing yet ("none"), its
\* fetch raised ("fetch_raised"), its aggregator raised ("raised"), or its
\* aggregator returned val ("val").
NotRun == [st |-> "none", val |-> Float(0)]
FetchRaised == [st |-> "fetch_raised", val |-> Float(0)]
AggOf(r) == [st |-> IF r.raised THEN "raised" ELSE "val", val |-> r.val]

\* Mutants: a tag copied from another branch.
SourceCECopied == "compute-optimizer"
SourceCOCopied == "cost-explorer"
SourceSyntheticCopied == "compute-optimizer"

\* The source tags of lines 217, 224 and 231/235.
SourceCE == "cost-explorer"
SourceCO == "compute-optimizer"
SourceSynthetic == "synthetic"

\* ------------------------------------------------------ lambda_handler
\* Mutant: the gate written with <=.
BelowOrAtThreshold(total) == ~total.nan /\ total.c <= MIN_SAVINGS

\* The savings gate: if _sum_.._savings(recs) < MIN_SAVINGS: raise RuntimeError.
BelowThreshold(total) == FLess(total, Float(MIN_SAVINGS))

\* The fetcher's locals before its loop, and once its frame is gone.
FrameReset ==
  /\ next_token' = 0
  /\ f_recs' = << >>
  /\ f_summary' = EmptySummary

FetchReset ==
  /\ FrameReset
  /\ requests' = << >>
  /\ responses' = << >>

InitHandler ==
  /\ pc = "start"
  /\ source = "None"
  /\ summary = EmptySummary
  /\ recs = << >>
  /\ next_token = 0
  /\ f_recs = << >>
  /\ f_summary = EmptySummary
  /\ requests = << >>
  /\ responses = << >>
  /\ payload = << >>
  /\ dated_key = << >>
  /\ puts = << >>
  /\ invals = << >>
  /\ result = << >>
  /\ exc = "None"
  /\ calls = {}
  /\ ceAgg = NotRun
  /\ coAgg = NotRun
  /\ running = "None"
  /\ probe_call = [st |-> "None", Reservations |-> << >>]
  /\ status_call = "None"
  /\ attempts = << >>
  /\ seed_day = << >>

\* The pure-function variables, unused by the handler.
InitPure ==
  /\ arg = << >>
  /\ ret = << >>
  /\ runs = << >>
  /\ gen = << >>

\* The generator states an invocation can start in: the module seeds nothing
\* at import, so any state is possible; two are enumerated.
HandlerRng == {0, 40000}

Init ==
  /\ InitHandler
  /\ InitPure
  /\ clock \in Days
  /\ rng \in HandlerRng

\* Lines 210-216: the locals are set and _fetch_ce_rightsizing is entered.
Start ==
  /\ pc = "start"
  /\ pc' = "ce_fetch"
  /\ calls' = calls \cup {"ce"}
  /\ UNCHANGED <<source, summary, recs, fetchVars, envVars, outVars, ceAgg, coAgg, running, logVars, pureVars>>

\* The handler's except Exception at line 220: _fetch_co_rightsizing is entered.
EnterCo ==
  /\ pc' = "co_fetch"
  /\ calls' = calls \cup {"co"}
  /\ FetchReset

\* The handler's except Exception at line 227: _any_running_instances is entered.
EnterProbe ==
  /\ pc' = "probe"
  /\ calls' = calls \cup {"probe"}
  /\ FetchReset

\* A page as the provider answers it: its records, its Summary when it has
\* one, and its continuation token (0 when it has none). The n-th page of a
\* fetch carries the token n.
Response(page, hasSummary, sum, token) ==
  [recs |-> page, hasSummary |-> hasSummary, Summary |-> sum, token |-> token]

\* recs.extend(resp.get(<records key>, [])) of lines 77 and 92.
Extend(acc, resp) == acc \o resp.recs

\* Mutant: resp.get("Summary") without the default.
GetSummaryNoDefault(resp, default) ==
  IF resp.hasSummary THEN resp.Summary ELSE EmptySummary

\* Line 78: summary = resp.get("Summary", summary).
GetSummary(resp, default) == IF resp.hasSummary THEN resp.Summary ELSE default

\* _fetch_ce_rightsizing, one round of its loop with a page received: the
\* request carries next_token, the page may carry a Summary and a
\* NextPageToken. On the page without a token the fetch returns and lines
\* 216-217 assign the handler's locals.
CePage ==
  /\ pc = "ce_fetch"
  /\ \E page \in Pages(CePageRecords), hasSummary \in BOOLEAN, more \in BOOLEAN :
       LET n == Len(requests) + 1
           resp == Response(page, hasSummary,
                            IF hasSummary THEN CeSummary(n) ELSE EmptySummary,
                            IF more THEN n ELSE 0)
           newRecs == Extend(f_recs, resp)
           newSummary == GetSummary(resp, f_summary)
       IN /\ more => n < MaxPages
          /\ requests' = Append(requests, next_token)
          /\ responses' = Append(responses, resp)
          /\ IF more
             THEN /\ f_recs' = newRecs
                  /\ f_summary' = newSummary
                  /\ next_token' = resp.token
                  /\ UNCHANGED <<pc, source, summary, recs>>
             ELSE /\ FrameReset
                  /\ pc' = "ce_gate"
                  /\ summary' = newSummary
                  /\ recs' = newRecs
                  /\ source' = SourceCE
  /\ UNCHANGED <<envVars, outVars, histVars, pureVars>>

\* ce.get_rightsizing_recommendation raises: the fetch does not catch it and
\* the handler's except Exception takes over.
CeRaise ==
  /\ pc = "ce_fetch"
  /\ \E e \in Errors : EnterCo
  /\ ceAgg' = FetchRaised
  /\ UNCHANGED <<source, summary, recs, envVars, outVars, coAgg, running, logVars, pureVars>>

\* Lines 218-219: the gate on the Cost Explorer records. An exception of
\* _sum_ce_savings is inside the try as well.
CeGate ==
  /\ pc = "ce_gate"
  /\ LET r == sum_ce_savings(recs)
     IN /\ ceAgg' = AggOf(r)
        /\ IF r.raised \/ BelowThreshold(r.val)
           THEN EnterCo
           ELSE /\ pc' = "assemble"
                /\ UNCHANGED <<calls, fetchVars>>
  /\ UNCHANGED <<source, summary, recs, envVars, outVars, coAgg, running, logVars, pureVars>>

\* _fetch_co_rightsizing, one round of its loop with a page received.
CoPage ==
  /\ pc = "co_fetch"
  /\ \E page \in Pages(CoPageRecords), more \in BOOLEAN :
       LET n == Len(requests) + 1
           resp == Response(page, FALSE, EmptySummary, IF more THEN n ELSE 0)
       IN /\ more => n < MaxPages
          /\ requests' = Append(requests, next_token)
          /\ responses' = Append(responses, resp)
          /\ f_recs' = Extend(f_recs, resp)
          /\ next_token' = resp.token
          /\ pc' = IF more THEN "co_fetch" ELSE "co_status"
  /\ UNCHANGED <<source, summary, recs, f_summary, envVars, outVars, histVars, pureVars>>

\* co.get_ec2_instance_recommendations raises.
CoRaise ==
  /\ pc = "co_fetch"
  /\ \E e \in Errors : EnterProbe
  /\ coAgg' = FetchRaised
  /\ UNCHANGED <<source, summary, recs, envVars, outVars, ceAgg, running, logVars, pureVars>>

\* Lines 97-102 and 223-224: co.get_enrollment_status() answers (with a
\* status, or without the key) or raises. Only ClientError is caught.
CoStatus ==
  /\ pc = "co_status"
  /\ \/ \E status \in {"Active", "Unknown"} :
          /\ status_call' = "ok"
          /\ summary' = CoSummary(status)
          /\ recs' = f_recs
          /\ source' = SourceCO
          /\ pc' = "co_gate"
          /\ FrameReset
          /\ UNCHANGED <<calls, requests, responses, coAgg>>
     \/ /\ status_call' = "ClientError"
        /\ summary' = CoSummary("Unknown")
        /\ recs' = f_recs
        /\ source' = SourceCO
        /\ pc' = "co_gate"
        /\ FrameReset
        /\ UNCHANGED <<calls, requests, responses, coAgg>>
     \/ /\ status_call' = "OtherError"
        /\ EnterProbe
        /\ coAgg' = FetchRaised
        /\ UNCHANGED <<source, summary, recs>>
  /\ UNCHANGED <<envVars, outVars, ceAgg, running, probe_call, attempts, seed_day, pureVars>>

\* Lines 225-226: the gate on the Compute Optimizer records.
CoGate ==
  /\ pc = "co_gate"
  /\ LET r == sum_co_savings(recs)
     IN /\ coAgg' = AggOf(r)
        /\ IF r.raised \/ BelowThreshold(r.val)
           THEN EnterProbe
           ELSE /\ pc' = "assemble"
                /\ UNCHANGED <<calls, fetchVars>>
  /\ UNCHANGED <<source, summary, recs, envVars, outVars, ceAgg, running, logVars, pureVars>>

\* The reservations describe_instances can answer with: each is the number
\* of instances in its "Instances" list.
Reservations == { << >>, <<0>>, <<1>>, <<0, 2>> }

\* for res in Reservations: if res.get("Instances"): return True
AnyInstances(reservations) == \E i \in 1 .. Len(reservations) : reservations[i] > 0

\* _any_running_instances: describe_instances answers or raises. Only
\* ClientError is caught; any other exception leaves the function, and the
\* handler, being raised inside an except block.
Probe ==
  /\ pc = "probe"
  /\ \/ \E reservations \in Reservations :
          /\ probe_call' = [st |-> "ok", Reservations |-> reservations]
          /\ running' = IF AnyInstances(reservations) THEN "True" ELSE "False"
          /\ pc' = "synth"
          /\ UNCHANGED exc
     \/ /\ probe_call' = [st |-> "ClientError", Reservations |-> << >>]
        /\ running' = "False"
        /\ pc' = "synth"
        /\ UNCHANGED exc
     \/ /\ probe_call' = [st |-> "OtherError", Reservations |-> << >>]
        /\ exc' = "describe_instances"
        /\ pc' = "failed"
        /\ UNCHANGED running
  /\ UNCHANGED <<source, summary, recs, fetchVars, envVars, payload, dated_key, puts, invals,
                 result, calls, ceAgg, coAgg, status_call, attempts, seed_day, pureVars>>

\* Mutant: only recs is taken from the generator, summary is left as it was.
SynthesizeKeepsSummary ==
  /\ pc = "synth"
  /\ LET g == gen_synthetic_recs(clock, rng)
     IN /\ recs' = g.recs
        /\ rng' = g.rng
  /\ source' = SourceSynthetic
  /\ seed_day' = << clock >>
  /\ calls' = calls \cup {"synth"}
  /\ pc' = "assemble"
  /\ UNCHANGED <<summary, fetchVars, clock, outVars, ceAgg, coAgg, running, probe_call,
                 status_call, attempts, pureVars>>

\* Lines 229-235: both branches call _gen_synthetic_recs().
Synthesize ==
  /\ pc = "synth"
  /\ LET g == gen_synthetic_recs(clock, rng)
     IN /\ summary' = g.summary
        /\ recs' = g.recs
        /\ rng' = g.rng
  /\ source' = SourceSynthetic
  /\ seed_day' = << clock >>
  /\ calls' = calls \cup {"synth"}
  /\ pc' = "assemble"
  /\ UNCHANGED <<fetchVars, clock, outVars, ceAgg, coAgg, running, probe_call, status_call,
                 attempts, pureVars>>

\* Mutant: the configuration echoed whatever the source.
EnvelopeAlwaysEcho(day, src, sum, rs) ==
  [generated_at |-> day,
   source |-> src,
   recommendation_target |-> RECOMMENDATION_TARGET,
   benefits_considered |-> BENEFITS_CONSIDERED,
   summary |-> sum,
   count |-> Len(rs),
   recommendations |-> rs]

\* Mutant: the count taken from the summary dict instead of the records.
EnvelopeCountsSummary(day, src, sum, rs) ==
  [generated_at |-> day,
   source |-> src,
   recommendation_target |-> IF src = "cost-explorer" THEN RECOMMENDATION_TARGET ELSE "None",
   benefits_considered |-> IF src = "cost-explorer" THEN BENEFITS_CONSIDERED ELSE "None",
   summary |-> sum,
   count |-> IF sum.kind = "empty" THEN 0 ELSE IF sum.kind = "syn" THEN 3 ELSE 1,
   recommendations |-> rs]

\* Lines 237-245: the envelope. _iso_now() reads the clock; generated_at is
\* kept as its date.
Envelope(day, src, sum, rs) ==
  [generated_at |-> day,
   source |-> src,
   recommendation_target |-> IF src = "cost-explorer" THEN RECOMMENDATION_TARGET ELSE "None",
   benefits_considered |-> IF src = "cost-explorer" THEN BENEFITS_CONSIDERED ELSE "None",
   summary |-> sum,
   count |-> Len(rs),
   recommendations |-> rs]

Assemble ==
  /\ pc = "assemble"
  /\ payload' = << Envelope(clock, source, summary, recs) >>
  /\ pc' = "keys"
  /\ UNCHANGED <<source, summary, recs, fetchVars, envVars, dated_key, puts, invals, result,
                 exc, histVars, pureVars>>

\* f"{PREFIX}/{today}.json" and f"{PREFIX}/latest.json".
DatedKey(day) == [prefix |-> PREFIX, dated |-> TRUE, day |-> day]
latest_key == [prefix |-> PREFIX, dated |-> FALSE, day |-> 0]

\* Lines 247-249: today is read from the clock again.
Keys ==
  /\ pc = "keys"
  /\ dated_key' = << DatedKey(clock) >>
  /\ pc' = "put_dated"
  /\ UNCHANGED <<source, summary, recs, fetchVars, envVars, payload, puts, invals, result,
                 exc, histVars, pureVars>>

\* _put_json(obj, key): the request s3.put_object is given. The body is the
\* compact JSON text of obj, which obj determines.
PutRequest(obj, key) ==
  [Key |-> key,
   Body |-> obj,
   ContentType |-> "application/json",
   CacheControl |-> "public, max-age=60, must-revalidate"]

\* Mutant: a failed put to the dated key is swallowed and the handler goes on.
PutDatedSwallowed ==
  /\ pc = "put_dated"
  /\ attempts' = Append(attempts, "put_dated")
  /\ \/ /\ puts' = Append(puts, PutRequest(payload[1], dated_key[1]))
        /\ pc' = "put_latest"
     \/ /\ pc' = "put_latest"
        /\ UNCHANGED puts
  /\ UNCHANGED <<source, summary, recs, fetchVars, envVars, payload, dated_key, invals, result,
                 exc, calls, ceAgg, coAgg, running, probe_call, status_call, seed_day, pureVars>>

\* Line 251: the put to the dated key returns or raises; nothing catches it.
PutDated ==
  /\ pc = "put_dated"
  /\ attempts' = Append(attempts, "put_dated")
  /\ \/ /\ puts' = Append(puts, PutRequest(payload[1], dated_key[1]))
        /\ pc' = "put_latest"
        /\ UNCHANGED exc
     \/ /\ exc' = "put_dated"
        /\ pc' = "failed"
        /\ UNCHANGED puts
  /\ UNCHANGED <<source, summary, recs, fetchVars, envVars, payload, dated_key, invals, result,
                 calls, ceAgg, coAgg, running, probe_call, status_call, seed_day, pureVars>>

\* Mutant: a failed put to the latest key is swallowed and the handler goes on.
PutLatestBestEffort ==
  /\ pc = "put_latest"
  /\ attempts' = Append(attempts, "put_latest")
  /\ \/ /\ puts' = Append(puts, PutRequest(payload[1], latest_key))
        /\ pc' = "invalidate"
     \/ /\ pc' = "invalidate"
        /\ UNCHANGED puts
  /\ UNCHANGED <<source, summary, recs, fetchVars, envVars, payload, dated_key, invals, result,
                 exc, calls, ceAgg, coAgg, running, probe_call, status_call, seed_day, pureVars>>

\* Line 252: the put to the latest key.
PutLatest ==
  /\ pc = "put_latest"
  /\ attempts' = Append(attempts, "put_latest")
  /\ \/ /\ puts' = Append(puts, PutRequest(payload[1], latest_key))
        /\ pc' = "invalidate"
        /\ UNCHANGED exc
     \/ /\ exc' = "put_latest"
        /\ pc' = "failed"
        /\ UNCHANGED puts
  /\ UNCHANGED <<source, summary, recs, fetchVars, envVars, payload, dated_key, invals, result,
                 calls, ceAgg, coAgg, running, probe_call, status_call, seed_day, pureVars>>

\* The uuid4 values a caller reference can carry.
Uuids == {1, 2}

\* The return value of line 262.
ReturnValue(src, dk, rs) ==
  [status |-> "ok", source |-> src, dated_key |-> dk, latest_key |-> latest_key,
   items |-> Len(rs)]

\* Lines 254-262: the invalidation of "/" + latest_key returns, and the
\* handler returns; or it raises.
Invalidate ==
  /\ pc = "invalidate"
  /\ attempts' = Append(attempts, "create_invalidation")
  /\ \/ \E u \in Uuids :
          /\ invals' = Append(invals, [Path |-> latest_key, CallerReference |-> u])
          /\ result' = << ReturnValue(source, dated_key[1], recs) >>
          /\ pc' = "done"
          /\ UNCHANGED exc
     \/ /\ exc' = "create_invalidation"
        /\ pc' = "failed"
        /\ UNCHANGED <<invals, result>>
  /\ UNCHANGED <<source, summary, recs, fetchVars, envVars, payload, dated_key, puts,
                 calls, ceAgg, coAgg, running, probe_call, status_call, seed_day, pureVars>>

\* datetime.utcnow() advances past midnight between two of the handler's
\* reads of the clock (lines 128, 24 and 247). Midnights before the first read
\* are the choice of the initial day.
Tick ==
  /\ pc \in {"assemble", "keys"}
  /\ clock < MaxDay
  /\ clock' = clock + 1
  /\ UNCHANGED <<handlerVars, fetchVars, rng, outVars, histVars, pureVars>>

Next ==
  \/ Start
  \/ CePage
  \/ CeRaise
  \/ CeGate
  \/ CoPage
  \/ CoRaise
  \/ CoStatus
  \/ CoGate
  \/ Probe
  \/ Synthesize
  \/ Assemble
  \/ Keys
  \/ PutDated
  \/ PutLatest
  \/ Invalidate
  \/ Tick

Spec == Init /\ [][Next]_vars

\* ------------------------------------------- the pure functions alone
\* Sequences over S of length at most n.
RECURSIVE SeqsUpTo(_, _)
SeqsUpTo(S, n) ==
  IF n = 0 THEN { << >> }
  ELSE LET shorter == SeqsUpTo(S, n - 1)
       IN shorter \cup { Append(q, x) : q \in shorter, x \in S }

\* Amounts an aggregator can meet: missing, None, not a number, "nan", and
\* numbers of cents, one of them negative.
SumAmounts ==
  { Amount("absent", 0), Amount("null", 0), Amount("text", 0), Amount("nan", 0),
    Amount("num", 0 - 1), Amount("num", 0), Amount("num", MIN_SAVINGS), Amount("num", 250) }
\* Savings blocks: missing, None, or a dict with one of the amounts.
SumSavings ==
  { NoSavings, Savings("null", NoAmount) } \cup { Savings("dict", a) : a \in SumAmounts }

\* Cost Explorer records: a Modify detail with any savings block; a
\* Terminate detail beside a missing, null or empty Modify detail; no detail.
SumCeRecords ==
  { CeRec(Detail("dict", sv), NoDetail) : sv \in SumSavings }
    \cup { CeRec(m, Detail("dict", Savings("dict", Amount("num", 250)))) :
             m \in { NoDetail, Detail("null", NoSavings), EmptyDetail } }
    \cup { CeRec(NoDetail, NoDetail), CeRec(NoDetail, Detail("null", NoSavings)),
           CeRec(NoDetail, Detail("dict", Savings("null", NoAmount))) }
\* Compute Optimizer records: savingsOpportunity missing, None, empty, or a
\* dict with any savings block.
SumCoRecords ==
  { CoRec(Detail("dict", sv)) : sv \in SumSavings }
    \cup { CoRec(NoDetail), CoRec(Detail("null", NoSavings)), CoRec(EmptyDetail) }

InitSum ==
  /\ InitHandler
  /\ clock = 0
  /\ rng = 0
  /\ runs = << >>
  /\ ret = << >>
  /\ gen = << >>
  /\ \/ arg \in { [co |-> FALSE, recs |-> q] : q \in SeqsUpTo(SumCeRecords, MaxSumRecs) }
     \/ arg \in { [co |-> TRUE, recs |-> q] : q \in SeqsUpTo(SumCoRecords, MaxSumRecs) }

\* _sum_ce_savings(recs) is called.
CallSumCe ==
  /\ ret = << >>
  /\ ~arg.co
  /\ ret' = << sum_ce_savings(arg.recs) >>
  /\ UNCHANGED <<handlerVars, fetchVars, envVars, outVars, histVars, arg, runs, gen>>

\* _sum_co_savings(recs) is called.
CallSumCo ==
  /\ ret = << >>
  /\ arg.co
  /\ ret' = << sum_co_savings(arg.recs) >>
  /\ UNCHANGED <<handlerVars, fetchVars, envVars, outVars, histVars, arg, runs, gen>>

NextSum == CallSumCe \/ CallSumCo

SpecSum == InitSum /\ [][NextSum]_vars

\* The families and sizes _smaller_type is tried on: the catalog's, two
\* more families with the prefixes it tests, the whole ladder and two sizes
\* that are not on it.
SmallerFamilies == { FAMILIES[i].fam : i \in 1 .. Len(FAMILIES) } \cup {"m6id", "t3a"}
SmallerSizes == { order[i] : i \in 1 .. Len(order) } \cup {"nano", "metal"}
\* The types FAMILIES can produce.
CatalogTypes ==
  UNION { { [fam |-> FAMILIES[i].fam, size |-> FAMILIES[i].sizes[j]] :
              j \in 1 .. Len(FAMILIES[i].sizes) } : i \in 1 .. Len(FAMILIES) }

InitSmaller ==
  /\ InitHandler
  /\ clock = 0
  /\ rng \in HandlerRng
  /\ runs = << >>
  /\ ret = << >>
  /\ gen = << >>
  /\ arg \in [fam : SmallerFamilies, size : SmallerSizes]

\* _smaller_type(of_type) is called.
CallSmallerType ==
  /\ ret = << >>
  /\ LET t == smaller_type(arg, rng)
     IN /\ ret' = << [fam |-> t.fam, size |-> t.size] >>
        /\ rng' = t.rng
  /\ UNCHANGED <<handlerVars, fetchVars, clock, outVars, histVars, arg, runs, gen>>

NextSmaller == CallSmallerType

SpecSmaller == InitSmaller /\ [][NextSmaller]_vars

\* The generator states a run of _gen_synthetic_recs can find.
GenRng == { (k * 4099) % RngMod : k \in 0 .. 31 }

\* The UTC days _gen_synthetic_recs is run on.
GenDays == 0 .. MaxGenDay

InitGen ==
  /\ InitHandler
  /\ clock \in GenDays
  /\ rng \in GenRng
  /\ runs = << >>
  /\ ret = << >>
  /\ gen = << >>
  /\ arg = << >>

\* _gen_synthetic_recs() is called: it reads the clock and the generator.
CallGen ==
  /\ Len(runs) < MaxRuns
  /\ LET g == gen_synthetic_recs(clock, rng)
     IN /\ runs' = Append(runs, [day |-> clock, before |-> rng,
                                 summary |-> g.summary, recs |-> g.recs])
        /\ rng' = g.rng
  /\ UNCHANGED <<handlerVars, fetchVars, clock, outVars, histVars, arg, ret, gen>>

\* Midnight passes between two runs.
GenTick ==
  /\ clock < MaxGenDay
  /\ clock' = clock + 1
  /\ UNCHANGED <<handlerVars, fetchVars, rng, outVars, histVars, pureVars>>

NextGen == CallGen \/ GenTick

SpecGen == InitGen /\ [][NextGen]_vars

\* ------------------------------ two generator calls in one process
\* The invocations that run _gen_synthetic_recs at once, as threads of one
\* interpreter: the module-level random functions all work on one generator.
Threads == {1, 2}

\* The locals of one call of _gen_synthetic_recs and where it stands; out is
\* <<>> until it returns, then <<what it returned>>.
Frame(at, n, rs, total, out) ==
  [pc |-> at, n |-> n, recs |-> rs, total |-> total, out |-> out]

InitThreads ==
  /\ InitHandler
  /\ clock \in Days
  /\ rng \in HandlerRng
  /\ arg = << >>
  /\ ret = << >>
  /\ runs = << >>
  /\ gen = [t \in Threads |-> Frame("seed", 0, << >>, 0, << >>)]

\* Line 155: random.seed(_daily_seed()).
GenSeed(t) ==
  /\ gen[t].pc = "seed"
  /\ rng' = SeedRng(clock, rng)
  /\ gen' = [gen EXCEPT ![t].pc = "count"]

\* Line 156: n = random.randint(2, 5).
GenCount(t) ==
  /\ gen[t].pc = "count"
  /\ rng' = Draw(rng)
  /\ gen' = [gen EXCEPT ![t].pc = "loop", ![t].n = RandInt(rng', 2, 5)]

\* Lines 159-198: one iteration of the loop. The other call is let in
\* between iterations only; letting it in between two draws of one
\* iteration adds interleavings and removes none.
GenIter(t) ==
  /\ gen[t].pc = "loop"
  /\ LET g == GenRecord(rng)
         rs == Append(gen[t].recs, g.rec)
     IN /\ rng' = g.rng
        /\ gen' = [gen EXCEPT ![t].recs = rs,
                              ![t].total = gen[t].total + g.savings,
                              ![t].pc = IF Len(rs) = gen[t].n THEN "summary" ELSE "loop"]

\* Lines 200-206: the summary, with the last draw, and the return.
GenReturn(t) ==
  /\ gen[t].pc = "summary"
  /\ rng' = Draw(rng)
  /\ gen' = [gen EXCEPT ![t].pc = "done",
                        ![t].out = << [summary |-> SynSummary(gen[t].total,
                                                              UniformCents(rng', 500, 5500)),
                                       recs |-> gen[t].recs] >>]

NextThreads ==
  \E t \in Threads :
    /\ GenSeed(t) \/ GenCount(t) \/ GenIter(t) \/ GenReturn(t)
    /\ UNCHANGED <<handlerVars, fetchVars, clock, outVars, histVars, arg, ret, runs>>

SpecThreads == InitThreads /\ [][NextThreads]_vars

\* ============================================================ claims
\* What the history variables say of the two attempts.
AtOrAbove(agg) == agg.st = "val" /\ ~agg.val.nan /\ agg.val.c >= MIN_SAVINGS
Below(agg) == agg.st = "val" /\ ~agg.val.nan /\ agg.val.c < MIN_SAVINGS
Assembled == payload # << >>
Returned0 == result # << >>

\* C1: whenever the Cost Explorer fetch returned and the aggregate of its
\* records is at or above MIN_SAVINGS, the source is "cost-explorer" (in the
\* local, the envelope and the return value), and the Compute Optimizer
\* fetcher, the liveness probe and the synthetic generator are not called in
\* that invocation.
C1_CostExplorerWins ==
  AtOrAbove(ceAgg) =>
    /\ source = "cost-explorer"
    /\ calls \cap {"co", "probe", "synth"} = {}
    /\ Assembled => payload[1].source = "cost-explorer"
    /\ Returned0 => result[1].source = "cost-explorer"
C1_Witness == AtOrAbove(ceAgg) /\ pc = "done"

\* C2: whenever the Cost Explorer attempt failed (its fetch raised, or its
\* aggregate was below MIN_SAVINGS) and the Compute Optimizer fetch returned
\* with an aggregate at or above MIN_SAVINGS, the source is
\* "compute-optimizer" and the synthetic generator is not called.
C2_ComputeOptimizerWins ==
  ((ceAgg.st = "fetch_raised" \/ Below(ceAgg)) /\ AtOrAbove(coAgg)) =>
    /\ source = "compute-optimizer"
    /\ "synth" \notin calls
    /\ Assembled => payload[1].source = "compute-optimizer"
    /\ Returned0 => result[1].source = "compute-optimizer"
C2_Witness == ceAgg.st = "fetch_raised" /\ AtOrAbove(coAgg) /\ pc = "done"

\* C3: when each of the two real fetchers raised or returned records whose
\* aggregate is below MIN_SAVINGS, then whatever the probe reported, every
\* envelope assembled has source "synthetic" and null recommendation_target
\* and benefits_considered, and the return value names "synthetic".
BothFailed ==
  /\ ceAgg.st = "fetch_raised" \/ Below(ceAgg)
  /\ coAgg.st = "fetch_raised" \/ Below(coAgg)
C3_SyntheticWhenBothFail ==
  BothFailed =>
    /\ Assembled =>
         /\ payload[1].source = "synthetic"
         /\ payload[1].recommendation_target = "None"
         /\ payload[1].benefits_considered = "None"
         /\ running \in {"True", "False"}
    /\ Returned0 => result[1].source = "synthetic"
C3_Witness == BothFailed /\ Below(ceAgg) /\ running = "True" /\ pc = "done"

\* C4: the gate is non-strict. With the Cost Explorer aggregate exactly
\* MIN_SAVINGS the attempt is sufficient: the source stays "cost-explorer"
\* and no fallback is entered; and a returned aggregate led to the fallback
\* only if it was strictly below MIN_SAVINGS.
C4_GateBoundary ==
  /\ (ceAgg.st = "val" /\ ~ceAgg.val.nan /\ ceAgg.val.c = MIN_SAVINGS) =>
       (source = "cost-explorer" /\ "co" \notin calls)
  /\ (ceAgg.st = "val" /\ "co" \in calls) => Below(ceAgg)
C4_Witness ==
  ceAgg.st = "val" /\ ~ceAgg.val.nan /\ ceAgg.val.c = MIN_SAVINGS /\ pc = "done"

\* C5: whatever the advisory and probe calls do, errors of any kind included,
\* the invocation does not end without a chosen source and an assembled
\* envelope.
C5_NoFailureBeforeEnvelope ==
  pc = "failed" => (source # "None" /\ Assembled)

\* C8: in every envelope count is the number of recommendations, the body
\* put to the dated key is the body put to the latest key, and the returned
\* items is count.
C8_EnvelopeCount ==
  /\ Assembled => payload[1].count = Len(payload[1].recommendations)
  /\ Len(puts) = 2 =>
       /\ puts[1].Body = puts[2].Body
       /\ puts[1].Body = payload[1]
       /\ puts[1].Key = dated_key[1]
       /\ puts[2].Key = latest_key
  /\ Returned0 => result[1].items = payload[1].count
C8_Witness ==
  /\ pc = "done"
  /\ Len(puts) = 2
  /\ payload[1].count = 2
  /\ payload[1].source = "cost-explorer"

\* C9: every envelope has one of the three source tags, never null, and
\* recommendation_target and benefits_considered are non-null exactly when
\* the source is "cost-explorer".
C9_SourceTag ==
  Assembled =>
    /\ payload[1].source \in {"cost-explorer", "compute-optimizer", "synthetic"}
    /\ payload[1].recommendation_target # "None" <=> payload[1].source = "cost-explorer"
    /\ payload[1].benefits_considered # "None" <=> payload[1].source = "cost-explorer"
    /\ payload[1].source = source
C9_Witness ==
  /\ Assembled
  /\ payload[1].source = "compute-optimizer"
  /\ payload[1].recommendation_target = "None"

\* C6: the size _smaller_type returns is never below "small" on the ladder,
\* for every type of the catalog and every size of the ladder.
C6_NeverBelowSmall ==
  (ret # << >> /\ (arg \in CatalogTypes \/ OrderIndex(arg.size) >= 0)) =>
    OrderIndex(ret[1].size) >= 1

\* C7: both aggregators return without raising a total that is at least
\* zero, whatever the records.
C7_SumTolerant ==
  ret # << >> => (~ret[1].raised /\ ~ret[1].val.nan /\ ret[1].val.c >= 0)

\* C10: two runs of _gen_synthetic_recs on the same UTC day return the same
\* records and the same summary, whatever state the generator was in before
\* each of them.
C10_DeterministicByDate ==
  \A i, j \in 1 .. Len(runs) :
    runs[i].day = runs[j].day =>
      (runs[i].recs = runs[j].recs /\ runs[i].summary = runs[j].summary)
C10_Witness ==
  /\ Len(runs) = MaxRuns
  /\ runs[1].day = runs[2].day
  /\ runs[1].before # runs[2].before
  /\ runs[2].before # DailySeed(runs[2].day)
  /\ Len(runs[2].recs) >= 2

\* C11: two invocations that run the generator at once on the same UTC day
\* do not interfere through the random generator: under every interleaving
\* of their steps each call returns what a lone call of that day returns.
LoneRun(day) ==
  LET g == gen_synthetic_recs(day, 0) IN [summary |-> g.summary, recs |-> g.recs]
C11_NoInterference ==
  \A t \in DOMAIN gen : gen[t].out # << >> => gen[t].out[1] = LoneRun(clock)

\* C12: _any_running_instances never lets a failure of describe_instances
\* out: whatever the error, it returns False; and it returns True exactly
\* when the query answered with a reservation whose instance list is not
\* empty.
C12_ProbeNeverPropagates ==
  probe_call.st # "None" =>
    /\ exc # "describe_instances"
    /\ running = IF probe_call.st = "ok" /\ AnyInstances(probe_call.Reservations)
                 THEN "True" ELSE "False"

\* The records of the pages received, in the order received.
RECURSIVE Collected(_)
Collected(rs) == IF rs = << >> THEN << >> ELSE rs[1].recs \o Collected(Tail(rs))

\* C13: when co.get_enrollment_status fails, in whatever way, after the
\* pages were fetched, _fetch_co_rightsizing still returns, with the records
\* of all pages and the status "Unknown": the failure is never the reason
\* the Compute Optimizer attempt is given up.
C13_StatusFailureTolerated ==
  status_call \in {"ClientError", "OtherError"} =>
    /\ coAgg # FetchRaised
    /\ "probe" \in calls => coAgg.st \in {"val", "raised"}
    /\ pc = "co_gate" =>
         (summary = CoSummary("Unknown") /\ recs = Collected(responses))

\* The three publish calls of lines 251-260.
PublishSteps == <<"put_dated", "put_latest", "create_invalidation">>
PublishFailed == \E i \in 1 .. Len(PublishSteps) : exc = PublishSteps[i]

\* C14 as stated: once a source is chosen every invocation attempts the
\* three publish steps, each exactly once, also when an earlier one failed.
C14_AllPublishAttempted ==
  (Assembled /\ pc \in {"done", "failed"}) => attempts = PublishSteps

\* C14, amended: the publish steps are attempted in the order put(dated),
\* put(latest), invalidation, each at most once; a step is attempted only
\* when every earlier one has returned, the first one that raises ends the
\* invocation, and an invocation none of whose steps raises attempts all
\* three.
C14_PublishUntilFailure ==
  /\ Len(attempts) <= Len(PublishSteps)
  /\ attempts = SubSeq(PublishSteps, 1, Len(attempts))
  /\ Len(attempts) = Len(puts) + Len(invals) + (IF PublishFailed THEN 1 ELSE 0)
  /\ PublishFailed => (pc = "failed" /\ exc = attempts[Len(attempts)])
  /\ (Assembled /\ pc \in {"done", "failed"}) =>
       /\ attempts # << >>
       /\ pc = "done" => (attempts = PublishSteps /\ ~PublishFailed)
       /\ pc = "failed" => PublishFailed
  /\ ~Assembled => attempts = << >>
C14_Witness ==
  /\ pc = "failed"
  /\ exc = "put_latest"
  /\ attempts = <<"put_dated", "put_latest">>
  /\ Len(puts) = 1

\* The savings block a generated record carries under the detail key of
\* its type.
OwnDetail(rec) == IF rec.RightsizingType = "Modify" THEN rec.mod ELSE rec.term
RECURSIVE SumOwnSavings(_)
SumOwnSavings(rs) ==
  IF rs = << >> THEN 0 ELSE OwnDetail(rs[1]).sav.amt.c + SumOwnSavings(Tail(rs))

\* C15: every run of _gen_synthetic_recs returns 2 to 5 records; each is a
\* Modify record with a ModifyRecommendationDetail or a Terminate record
\* with a TerminateRecommendationDetail, never both; its savings are a
\* whole number of cents from 3.00 to 120.00; and the summary's total is
\* the sum of the records' savings.
C15_GeneratedRecords ==
  \A i \in 1 .. Len(runs) :
    /\ Len(runs[i].recs) \in 2 .. 5
    /\ \A j \in 1 .. Len(runs[i].recs) :
         LET rec == runs[i].recs[j]
         IN /\ \/ /\ rec.RightsizingType = "Modify"
                  /\ rec.mod.k = "dict"
                  /\ rec.term.k = "absent"
               \/ /\ rec.RightsizingType = "Terminate"
                  /\ rec.term.k = "dict"
                  /\ rec.mod.k = "absent"
            /\ OwnDetail(rec).sav.k = "dict"
            /\ OwnDetail(rec).sav.amt.k = "num"
            /\ OwnDetail(rec).sav.amt.c \in 300 .. 12000
    /\ runs[i].summary.kind = "syn"
    /\ runs[i].summary.total = SumOwnSavings(runs[i].recs)
C15_Witness ==
  \E i \in 1 .. Len(runs) :
    /\ Len(runs[i].recs) >= 3
    /\ \E j, k \in 1 .. Len(runs[i].recs) :
         /\ runs[i].recs[j].RightsizingType = "Modify"
         /\ runs[i].recs[k].RightsizingType = "Terminate"

\* The Summary of the last page received that carried one, {} when none did.
LastSummary(rs) ==
  LET with == { i \in 1 .. Len(rs) : rs[i].hasSummary }
  IN IF with = {} THEN EmptySummary
     ELSE rs[CHOOSE i \in with : \A j \in with : j <= i].Summary

\* One request per page received; the first request carries no token, each
\* later one the token of the page before it, which had one.
TokenChain ==
  /\ Len(requests) = Len(responses)
  /\ requests # << >> => requests[1] = 0
  /\ \A i \in 2 .. Len(requests) :
       requests[i] = responses[i - 1].token /\ responses[i - 1].token # 0

\* The last page received is the first one without a token.
Exhausted ==
  /\ responses # << >>
  /\ responses[Len(responses)].token = 0
  /\ \A i \in 1 .. Len(responses) - 1 : responses[i].token # 0

\* The handler holds what the named fetcher returned, and no later producer
\* has been entered.
HoldsCe == source = SourceCE /\ calls = {"ce"} /\ pc \notin {"start", "ce_fetch"}
HoldsCo == source = SourceCO /\ calls = {"ce", "co"} /\ pc \notin {"co_fetch", "co_status"}

\* C16: for every sequence of pages that ends with the first page without a
\* token, _fetch_ce_rightsizing requests exactly those pages in order, each
\* request after the first with the token of the page before, stops after
\* the page without a token, and returns the pages' records concatenated in
\* order with the Summary of the last page that had one ({} if none had);
\* _fetch_co_rightsizing pages and collects its records the same way.
C16_Pagination ==
  /\ TokenChain
  /\ pc \in {"ce_fetch", "co_fetch"} =>
       /\ \A i \in 1 .. Len(responses) : responses[i].token # 0
       /\ f_recs = Collected(responses)
       /\ pc = "ce_fetch" => f_summary = LastSummary(responses)
  /\ HoldsCe =>
       /\ Exhausted
       /\ recs = Collected(responses)
       /\ summary = LastSummary(responses)
  /\ pc = "co_status" => (Exhausted /\ f_recs = Collected(responses))
  /\ HoldsCo => (Exhausted /\ recs = Collected(responses))
C16_Witness ==
  /\ pc = "ce_gate"
  /\ Len(responses) = 2
  /\ responses[1].hasSummary
  /\ ~responses[2].hasSummary
  /\ responses[1].recs # << >>
  /\ responses[2].recs # << >>
  /\ requests = <<0, responses[1].token>>

\* Every record of the pages received has the given provider's shape.
PagesOf(shape) ==
  \A i \in 1 .. Len(responses) :
    \A j \in 1 .. Len(responses[i].recs) : responses[i].recs[j].shape = shape

\* C17: in every envelope the summary and the recommendations are what the
\* producer named by the source tag returned from one complete call: all the
\* pages of one exhausted Cost Explorer or Compute Optimizer fetch, or one
\* run of the generator. Nothing of a fetch that raised part-way, or of an
\* attempt the gate rejected, is in an envelope with another tag or mixed
\* with another producer's output.
C17_OneProducer ==
  Assembled =>
    /\ payload[1].source = SourceCE =>
         /\ Exhausted /\ PagesOf("ce")
         /\ payload[1].recommendations = Collected(responses)
         /\ payload[1].summary = LastSummary(responses)
         /\ calls = {"ce"}
    /\ payload[1].source = SourceCO =>
         /\ Exhausted /\ PagesOf("co")
         /\ payload[1].recommendations = Collected(responses)
         /\ payload[1].summary.kind = "co"
         /\ status_call \in {"ok", "ClientError"}
         /\ "synth" \notin calls
    /\ payload[1].source = SourceSynthetic =>
         /\ seed_day # << >>
         /\ [summary |-> payload[1].summary, recs |-> payload[1].recommendations]
              = LoneRun(seed_day[1])
C17_Witness ==
  /\ Assembled
  /\ payload[1].source = SourceSynthetic
  /\ Below(ceAgg)
  /\ coAgg = FetchRaised
  /\ status_call = "None"

\* C18: within one invocation the date of the dated key, the date of
\* generated_at and, for a synthetic envelope, the date the daily seed was
\* derived from are one and the same UTC date, also when midnight passes
\* between the steps.
C18_OneDate ==
  /\ (Assembled /\ payload[1].source = SourceSynthetic) =>
       seed_day = << payload[1].generated_at >>
  /\ dated_key # << >> => dated_key[1].day = payload[1].generated_at

\* C19: the publish steps come in the order put to the dated key, put to the
\* latest key, invalidation of the latest key's path; the invalidation is
\* requested only after both puts have returned; and the handler returns
\* status "ok" only after exactly two puts and one invalidation have
\* returned without error.
C19_PublishOrder ==
  /\ Len(puts) <= 2 /\ Len(invals) <= 1
  /\ Len(puts) >= 1 => (puts[1].Key = dated_key[1] /\ puts[1].Key.dated)
  /\ Len(puts) = 2 => puts[2].Key = latest_key
  /\ (\E i \in 1 .. Len(attempts) : attempts[i] = "create_invalidation") =>
       /\ Len(puts) = 2
       /\ attempts = PublishSteps
  /\ invals # << >> => invals[1].Path = latest_key
  /\ Returned0 =>
       /\ result[1].status = "ok"
       /\ Len(puts) = 2
       /\ Len(invals) = 1
       /\ exc = "None"
C19_Witness ==
  /\ Returned0
  /\ result[1].status = "ok"
  /\ Len(puts) = 2
  /\ Len(invals) = 1
  /\ puts[1].Key.dated
  /\ ~puts[2].Key.dated

====
